---- MODULE Spec2Model ----
(***************************************************************************)
(* NextBracket: the batch calendar generator (scripts/generate_calendars), *)
(* the union fetcher (TournamentFetcher), the request the gateway sends    *)
(* (StartGGClient.get_tournaments) and the event mapper                    *)
(* (CalendarGenerator).  One run of main() is one behaviour.               *)
(*                                                                         *)
(* Optional values (Python None / a missing key) are sequences of length   *)
(* at most one: <<>> is None, <<v>> is the value v.                        *)
(***************************************************************************)
EXTENDS Integers, Sequences, FiniteSets, TLC

VARIABLES
    files,              \* contents of the config files main() iterates over
    remote,             \* tournaments the remote service can return
    apiKey,             \* STARTGG_API_KEY is set in the environment
    today,              \* midnight of today, Unix seconds
    pc,                 \* position of the run
    idx,                \* index of the config file being processed
    success_count,      \* main(): success_count
    attempted,          \* indexes passed to generate_calendar_for_config, in order
    outcomes,           \* values returned by generate_calendar_for_config, in order
    feeds,              \* calendars/feeds/<name>.ics, per config file
    summary,            \* the summary main() prints
    exitCode,           \* exit status of the process
    config,             \* TournamentFetcher.config
    videogame_ids,      \* fetch_tournaments locals
    owner_ids,
    location_params,
    after_date,
    before_date,
    all_tournaments,
    ownerPos,           \* position of the owner loop
    sent,               \* requests sent to the remote service, in order
    returned,           \* values get_tournaments returned, in order
    unique_tournaments,
    tournaments,        \* value fetch_tournaments returned
    error,              \* exception in flight
    events              \* events added to the calendar

inputs == <<files, remote, apiKey, today>>
batch  == <<idx, success_count, attempted, outcomes, feeds, summary, exitCode>>
frame  == <<config, videogame_ids, owner_ids, location_params, after_date,
            before_date, all_tournaments, ownerPos, sent, returned,
            unique_tournaments, tournaments, events>>
vars   == <<inputs, batch, frame, pc, error>>

(***************************************************************************)
(* Bounds                                                                  *)
(***************************************************************************)
MaxLen == 2         \* longest node list the remote service returns
MaxFiles == 2       \* most config files in one batch
MaxEvents == 2      \* most sub-events of a tournament

(***************************************************************************)
(* Program constants                                                       *)
(***************************************************************************)
PerPage == 100
DaysPerYear == 365
SecondsPerDay == 86400
DefaultHours == 4
SecondsPerHour == 3600
DefaultMinAttendees == 0
DefaultPage == 1

None == <<>>
Some(v) == <<v>>

\* Python truthiness of an optional number / of an optional string.
TruthyNum(x) == x # None /\ x[1] # 0
TruthyStr(x) == x # None /\ x[1] # ""

SeqUpTo(S, n) == UNION {[1..k -> S] : k \in 0..n}

(***************************************************************************)
(* Tournament records                                                      *)
(***************************************************************************)
\* A sub-event's game descriptor: the key missing, null, or an object.
Videogames == {[kind |-> "absent", name |-> None],
               [kind |-> "null", name |-> None],
               [kind |-> "obj", name |-> Some("Melee")]}

SubEvents == {[name |-> "Singles", videogame |-> v] : v \in Videogames}

Tournament(id, att, reg, startAt, endAt, venue, city, state, country, evs) ==
    [id |-> id, name |-> "Tourney", slug |-> "tournament/tourney",
     startAt |-> startAt, endAt |-> endAt,
     venueAddress |-> venue, city |-> city, state |-> state, countryCode |-> country,
     isRegistrationOpen |-> reg, numAttendees |-> att, events |-> evs]

PlainTournament(id, att, reg) ==
    Tournament(id, att, reg, Some(1000000), None, None, None, None, None, <<>>)

\* The service's tournaments for the union fetch: two copies of tournament 1 that
\* differ, and a record without id.
UnionRemote == {PlainTournament(Some(1), Some(20), Some(TRUE)),
                PlainTournament(Some(1), None, Some(FALSE)),
                PlainTournament(None, Some(5), Some(TRUE))}

\* The service's tournaments for the result filter: attendee count unknown, below,
\* at and above the threshold used; registration open and closed.
FilterRemote == {PlainTournament(Some(1), None, Some(FALSE)),
                 PlainTournament(Some(2), Some(5), Some(TRUE)),
                 PlainTournament(Some(3), Some(20), Some(FALSE)),
                 PlainTournament(Some(4), Some(25), Some(TRUE))}

\* The service's tournaments for the event mapper: every combination of the
\* optional fields.
RichTournaments ==
    {Tournament(Some(1), att, reg, s, e, venue, city, state, country, evs) :
        att \in {None, Some(0), Some(5)},
        reg \in {None, Some(TRUE), Some(FALSE)},
        s \in {None, Some(1000000)},
        e \in {None, Some(1090000)},
        venue \in {None, Some("1 Main St")},
        city \in {None, Some("Austin")},
        state \in {None, Some("TX")},
        country \in {None, Some("US")},
        evs \in SeqUpTo(SubEvents, MaxEvents)}

(***************************************************************************)
(* Configurations                                                          *)
(***************************************************************************)
\* A list entry of `games` / `owners`: a bare number, a bare string, an object
\* with "id", an object with "name".
Entry(shape, id, name) == [shape |-> shape, id |-> id, name |-> name]
GameEntries == {Entry("int", Some(7), None), Entry("str", None, Some("melee")),
                Entry("dict_id", Some(8), None), Entry("dict_name", None, Some("ultimate"))}
OwnerEntries == {Entry("str", Some("owner41"), None), Entry("dict_id", Some("owner42"), None),
                 Entry("dict_name", None, Some("bob"))}

NoLocation == [center |-> None, radius |-> None, radius_unit |-> None]
CenterRadius == [center |-> Some([latitude |-> 34, longitude |-> 118]),
                 radius |-> Some(50), radius_unit |-> Some("miles")]
CenterOnly == [center |-> Some([latitude |-> 34, longitude |-> 118]),
               radius |-> None, radius_unit |-> None]

NoFilters == [date_range_days |-> None, include_past_days |-> None,
              min_attendees |-> None]

Config(games, owners, location, years, filters) ==
    [games |-> games, owners |-> owners, location |-> location,
     date_range_years |-> years, filters |-> filters]

EmptyConfig == Config(<<>>, <<>>, NoLocation, None, NoFilters)

File(kind, cfg) == [kind |-> kind, config |-> cfg]

(***************************************************************************)
(* TournamentFetcher: criteria                                             *)
(***************************************************************************)
\* What get_videogame_id can return for a name: nothing, or the first match.
Lookups == {None, Some(1386)}

RECURSIVE GetVideogameIds(_, _)
\* _get_videogame_ids: games are the entries left, lookups the gateway's answers
\* for them (used for the entries that are resolved by name).
GetVideogameIds(games, lookups) ==
    IF games = <<>> THEN <<>>
    ELSE LET game == Head(games)
             rest == GetVideogameIds(Tail(games), Tail(lookups))
         IN  IF game.shape = "dict_id" THEN <<game.id[1]>> \o rest
             ELSE IF game.shape \in {"dict_name", "str"}
                  THEN IF TruthyNum(Head(lookups)) THEN <<Head(lookups)[1]>> \o rest
                       ELSE rest
             ELSE rest

RECURSIVE GetOwnerIds(_)
\* _get_owner_ids
GetOwnerIds(owners) ==
    IF owners = <<>> THEN <<>>
    ELSE LET owner == Head(owners)
             rest == GetOwnerIds(Tail(owners))
         IN  IF owner.shape = "dict_id" THEN <<owner.id[1]>> \o rest
             ELSE IF owner.shape = "str" THEN <<owner.id[1]>> \o rest
             ELSE rest

\* _get_location_params raises KeyError: location["radius"] with the key missing.
LocationRaises(location) == location.center # None /\ location.radius = None

NoLocationParams ==
    [latitude |-> None, longitude |-> None, radius |-> None, radius_unit |-> "km"]

\* _get_location_params, as the keyword arguments get_tournaments receives.
GetLocationParams(location) ==
    IF location.center # None
    THEN [latitude |-> Some(location.center[1].latitude),
          longitude |-> Some(location.center[1].longitude),
          radius |-> location.radius,
          radius_unit |-> IF location.radius_unit = None THEN "km"
                          ELSE location.radius_unit[1]]
    ELSE NoLocationParams

\* fetch_tournaments: the date window, <<after_date, before_date>>.
DateWindow(cfg, now) ==
    IF cfg.date_range_years # None /\ cfg.date_range_years[1] > 0
    THEN LET days_range == cfg.date_range_years[1] * DaysPerYear
         IN  <<Some(now - days_range * SecondsPerDay),
               Some(now + days_range * SecondsPerDay)>>
    ELSE <<None, None>>

(***************************************************************************)
(* StartGGClient.get_tournaments                                           *)
(***************************************************************************)
Args(vids, loc, after, before, owners, per_page) ==
    [videogame_ids |-> vids, latitude |-> loc.latitude, longitude |-> loc.longitude,
     radius |-> loc.radius, radius_unit |-> loc.radius_unit,
     after_date |-> after, before_date |-> before, owner_ids |-> owners,
     per_page |-> per_page, page |-> DefaultPage]

\* The filter object get_tournaments builds.
BuildFilters(a) ==
    [videogameIds |-> IF a.videogame_ids # None /\ a.videogame_ids[1] # <<>>
                      THEN a.videogame_ids ELSE None,
     location |-> IF TruthyNum(a.latitude) /\ TruthyNum(a.longitude) /\ TruthyNum(a.radius)
                  THEN Some([distanceFrom |-> <<a.latitude[1], a.longitude[1]>>,
                             distance |-> <<a.radius[1], a.radius_unit>>])
                  ELSE None,
     afterDate |-> IF TruthyNum(a.after_date) THEN a.after_date ELSE None,
     beforeDate |-> IF TruthyNum(a.before_date) THEN a.before_date ELSE None,
     ownerId |-> IF a.owner_ids # None /\ a.owner_ids[1] # <<>>
                 THEN Some(a.owner_ids[1][1]) ELSE None]

OwnerOnlyFilter(ownerId) ==
    [videogameIds |-> None, location |-> None, afterDate |-> None,
     beforeDate |-> None, ownerId |-> ownerId]

\* The query and variables get_tournaments sends to the remote service.
Request(a) ==
    IF a.owner_ids # None /\ a.owner_ids[1] # <<>>
    THEN [query |-> "TournamentsByOwner", perPage |-> a.per_page, page |-> None,
          filter |-> OwnerOnlyFilter(BuildFilters(a).ownerId)]
    ELSE [query |-> "TournamentPageFilter", perPage |-> a.per_page,
          page |-> Some(a.page), filter |-> BuildFilters(a)]

\* What _execute_query can do: raise (transport error, or an "errors" payload),
\* answer with nodes: null, or answer with a node list.
Responses(service) ==
    {[kind |-> "raise", nodes |-> <<>>], [kind |-> "nodes_null", nodes |-> <<>>]}
    \cup {[kind |-> "nodes", nodes |-> ns] : ns \in SeqUpTo(service, MaxLen)}

\* The value get_tournaments returns for a response.
Returned(response) ==
    IF response.kind = "raise" THEN Some(<<>>)
    ELSE IF response.kind = "nodes_null" THEN None
    ELSE Some(response.nodes)

(***************************************************************************)
(* TournamentFetcher: union and filter                                     *)
(***************************************************************************)
RECURSIVE DedupFrom(_, _)
\* fetch_tournaments: the duplicate-removal loop, from seen_ids on.
DedupFrom(ts, seen_ids) ==
    IF ts = <<>> THEN <<>>
    ELSE LET tournament_id == Head(ts).id
         IN  IF TruthyNum(tournament_id) /\ tournament_id[1] \notin seen_ids
             THEN <<Head(ts)>> \o DedupFrom(Tail(ts), seen_ids \cup {tournament_id[1]})
             ELSE DedupFrom(Tail(ts), seen_ids)

Reverse(s) == [i \in 1..Len(s) |-> s[Len(s) + 1 - i]]

\* The duplicate removal with the last occurrence of an id winning.
DedupKeepLast(ts) == Reverse(DedupFrom(Reverse(ts), {}))

Dedup(ts) == DedupFrom(ts, {})

MinAttendees(filters) ==
    IF filters.min_attendees = None THEN DefaultMinAttendees
    ELSE filters.min_attendees[1]

\* The filter dropping the tournaments of unknown attendee count too.
KeepsKnownOnly(tournament, min_attendees) ==
    tournament.numAttendees # None /\ tournament.numAttendees[1] >= min_attendees

\* _apply_filters: whether the tournament is kept.
Keeps(tournament, min_attendees) ==
    ~(tournament.numAttendees # None /\ tournament.numAttendees[1] < min_attendees)

\* _apply_filters
ApplyFilters(ts, filters) ==
    SelectSeq(ts, LAMBDA t : Keeps(t, MinAttendees(filters)))
(***************************************************************************)
(* CalendarGenerator: the event mapper                                     *)
(***************************************************************************)
\* _get_event_summary raises AttributeError: videogame.get on a null videogame.
SummaryRaises(t) ==
    \E i \in 1..Len(t.events) : t.events[i].videogame.kind = "null"

\* _get_event_summary: the name and the game names appended to it (joined in
\* sorted order, so the set decides the string).
GetEventSummary(t) ==
    [name |-> t.name,
     games |-> {t.events[i].videogame.name[1] :
                   i \in {j \in 1..Len(t.events) : TruthyStr(t.events[j].videogame.name)}}]

\* _get_event_description: the parts that are joined with newlines.
GetEventDescription(t) ==
    (IF TruthyNum(t.numAttendees) THEN <<<<"Attendees: ", t.numAttendees[1]>>>> ELSE <<>>)
    \o (IF t.events # <<>>
        THEN <<<<"Events: ", [i \in 1..Len(t.events) |-> t.events[i].name]>>>>
        ELSE <<>>)
    \o (IF t.isRegistrationOpen = Some(FALSE) THEN <<<<"Registration Closed">>>> ELSE <<>>)
    \o <<<<"View on start.gg: https://start.gg/", t.slug>>>>

\* _get_event_location: the parts that are joined with ", ", or "TBD".
GetEventLocation(t) ==
    LET city_state == (IF TruthyStr(t.city) THEN <<t.city[1]>> ELSE <<>>)
                      \o (IF TruthyStr(t.state) THEN <<t.state[1]>> ELSE <<>>)
        location_parts == (IF TruthyStr(t.venueAddress) THEN <<<<t.venueAddress[1]>>>> ELSE <<>>)
                          \o (IF city_state # <<>> THEN <<city_state>> ELSE <<>>)
                          \o (IF TruthyStr(t.countryCode) THEN <<<<t.countryCode[1]>>>> ELSE <<>>)
    IN  IF location_parts # <<>> THEN location_parts ELSE <<<<"TBD">>>>

\* A timestamp field is None, a number <<n>>, or a value fromtimestamp rejects,
\* <<"unparseable", e>>, e the exception it raises for it.
Unparseable(e) == <<"unparseable", e>>

\* Python truthiness of a timestamp field.
TruthyTimestamp(timestamp) ==
    timestamp # None /\ (Len(timestamp) = 2 \/ timestamp[1] # 0)

\* _parse_datetime raises: fromtimestamp raises something other than the
\* ValueError and TypeError of the except clause.
ParseRaises(timestamp) ==
    /\ TruthyTimestamp(timestamp)
    /\ Len(timestamp) = 2
    /\ timestamp[2] \notin {"ValueError", "TypeError"}

\* _parse_datetime: the instant, in seconds since the epoch, or None.
ParseDatetime(timestamp) ==
    IF ~TruthyTimestamp(timestamp) THEN None
    ELSE IF Len(timestamp) = 2 THEN None
    ELSE Some(timestamp[1])

\* A UID that also carries the start timestamp.
UidWithStart(t) == <<"tournament-", t.id, t.startAt, "@nextbracket">>

\* _create_event: the UID.
Uid(t) == <<"tournament-", t.id, "@nextbracket">>

\* _create_event, for a tournament it does not raise for.
CreateEvent(t) ==
    LET start_time == ParseDatetime(t.startAt)
        end_time == ParseDatetime(t.endAt)
    IN  [summary |-> GetEventSummary(t),
         description |-> GetEventDescription(t),
         location |-> GetEventLocation(t),
         url |-> <<"https://start.gg/", t.slug>>,
         dtstart |-> start_time,
         dtend |-> IF end_time # None THEN end_time
                   ELSE IF start_time # None
                        THEN Some(start_time[1] + DefaultHours * SecondsPerHour)
                        ELSE None,
         uid |-> Uid(t)]

\* _create_event raises.
CreateEventRaises(t) ==
    SummaryRaises(t) \/ ParseRaises(t.startAt) \/ ParseRaises(t.endAt)

\* The exception _create_event raises, for a tournament it raises for.
CreateEventError(t) ==
    IF SummaryRaises(t) THEN "AttributeError"
    ELSE IF ParseRaises(t.startAt) THEN t.startAt[2]
    ELSE t.endAt[2]

\* An empty result that is not told apart from a found one.
NothingFoundNever(ts) == FALSE

\* `if not tournaments` in generate_calendar_for_config.
NothingFound(ts) == ts = <<>>

\* An except clause that names the configuration errors only.
CaughtConfigErrors(e) == e \in {"FileNotFoundError", "JSONDecodeError", "ValueError"}

\* except Exception in generate_calendar_for_config: whether the error is caught.
Caught(e) == TRUE

(***************************************************************************)
(* The run                                                                 *)
(***************************************************************************)
EmptyFrame ==
    /\ config' = EmptyConfig
    /\ videogame_ids' = <<>>
    /\ owner_ids' = <<>>
    /\ location_params' = NoLocationParams
    /\ after_date' = None
    /\ before_date' = None
    /\ all_tournaments' = <<>>
    /\ ownerPos' = 1
    /\ sent' = <<>>
    /\ returned' = <<>>
    /\ unique_tournaments' = <<>>
    /\ tournaments' = None
    /\ events' = <<>>

\* generate_calendar_for_config returns ok to main's loop, which counts it and
\* moves to the next config file.
Return(ok) ==
    /\ outcomes' = Append(outcomes, ok)
    /\ success_count' = IF ok THEN success_count + 1 ELSE success_count
    /\ idx' = idx + 1
    /\ pc' = "loop"
    /\ UNCHANGED <<attempted, summary, exitCode>>

\* main, up to the loop: no config files ends the run without a summary.
MainStart ==
    /\ pc = "main"
    /\ IF files = <<>>
       THEN pc' = "exit" /\ exitCode' = Some(0)
       ELSE pc' = "loop" /\ exitCode' = exitCode
    /\ UNCHANGED <<inputs, frame, error, idx, success_count, attempted, outcomes,
                   feeds, summary>>

\* generate_calendar_for_config, up to TournamentFetcher(config_path):
\* _load_config, then StartGGClient().
StartConfig ==
    /\ pc = "loop"
    /\ idx <= Len(files)
    /\ attempted' = Append(attempted, idx)
    /\ IF files[idx].kind = "missing"
       THEN EmptyFrame /\ error' = Some("FileNotFoundError") /\ pc' = "raised"
       ELSE IF files[idx].kind = "invalid"
       THEN EmptyFrame /\ error' = Some("JSONDecodeError") /\ pc' = "raised"
       ELSE IF ~apiKey
       THEN EmptyFrame /\ error' = Some("ValueError") /\ pc' = "raised"
       ELSE /\ config' = files[idx].config
            /\ videogame_ids' = <<>>
            /\ owner_ids' = <<>>
            /\ location_params' = NoLocationParams
            /\ after_date' = None
            /\ before_date' = None
            /\ all_tournaments' = <<>>
            /\ ownerPos' = 1
            /\ sent' = <<>>
            /\ returned' = <<>>
            /\ unique_tournaments' = <<>>
            /\ tournaments' = None
            /\ events' = <<>>
            /\ error' = None
            /\ pc' = "criteria"
    /\ UNCHANGED <<inputs, idx, success_count, outcomes, feeds, summary, exitCode>>

\* fetch_tournaments, up to the primary query: the criteria.
BuildCriteria ==
    /\ pc = "criteria"
    /\ \E lookups \in [1..Len(config.games) -> Lookups] :
           videogame_ids' = GetVideogameIds(config.games, lookups)
    /\ owner_ids' = GetOwnerIds(config.owners)
    /\ IF LocationRaises(config.location)
       THEN /\ error' = Some("KeyError")
            /\ pc' = "raised"
            /\ UNCHANGED <<location_params, after_date, before_date>>
       ELSE /\ location_params' = GetLocationParams(config.location)
            /\ after_date' = DateWindow(config, today)[1]
            /\ before_date' = DateWindow(config, today)[2]
            /\ error' = error
            /\ pc' = "primary"
    /\ UNCHANGED <<inputs, batch, config, all_tournaments, ownerPos, sent, returned,
                   unique_tournaments, tournaments, events>>

\* fetch_tournaments, step 1: the primary query.
PrimaryQuery ==
    /\ pc = "primary"
    /\ \E response \in Responses(remote) :
        LET main_tournaments == IF Returned(response) = None THEN <<>>
                                ELSE Returned(response)[1]
        IN  /\ sent' = Append(sent, Request(Args(Some(videogame_ids), location_params,
                                                 after_date, before_date, None, PerPage)))
            /\ returned' = Append(returned, Returned(response))
            /\ all_tournaments' = all_tournaments \o main_tournaments
    /\ ownerPos' = 1
    /\ pc' = IF owner_ids # <<>> THEN "owners" ELSE "finish"
    /\ UNCHANGED <<inputs, batch, config, videogame_ids, owner_ids, location_params,
                   after_date, before_date, unique_tournaments, tournaments, events,
                   error>>

\* fetch_tournaments, step 2: the query for one owner.
OwnerQuery ==
    /\ pc = "owners"
    /\ ownerPos <= Len(owner_ids)
    /\ \E response \in Responses(remote) :
        LET owner_tournaments == Returned(response)
        IN  /\ sent' = Append(sent, Request(Args(None, NoLocationParams, after_date,
                                                 before_date,
                                                 Some(<<owner_ids[ownerPos]>>), PerPage)))
            /\ returned' = Append(returned, owner_tournaments)
            /\ IF owner_tournaments = None
               THEN \* len(None) raises TypeError
                    /\ error' = Some("TypeError")
                    /\ pc' = "raised"
                    /\ UNCHANGED <<all_tournaments, ownerPos>>
               ELSE /\ all_tournaments' = all_tournaments \o owner_tournaments[1]
                    /\ ownerPos' = ownerPos + 1
                    /\ error' = error
                    /\ pc' = IF ownerPos = Len(owner_ids) THEN "finish" ELSE "owners"
    /\ UNCHANGED <<inputs, batch, config, videogame_ids, owner_ids, location_params,
                   after_date, before_date, unique_tournaments, tournaments, events>>

\* fetch_tournaments, to its return: duplicates removed, filters applied.
FinishFetch ==
    /\ pc = "finish"
    /\ unique_tournaments' = Dedup(all_tournaments)
    /\ tournaments' = Some(ApplyFilters(Dedup(all_tournaments), config.filters))
    /\ pc' = "fetched"
    /\ UNCHANGED <<inputs, batch, config, videogame_ids, owner_ids, location_params,
                   after_date, before_date, all_tournaments, ownerPos, sent, returned,
                   events, error>>

\* generate_calendar_for_config, after the fetch: nothing found returns False;
\* otherwise the calendar is generated and saved.
Generate ==
    /\ pc = "fetched"
    /\ LET ts == tournaments[1]
           raising == {i \in 1..Len(ts) : CreateEventRaises(ts[i])}
       IN  IF NothingFound(ts)
           THEN Return(FALSE) /\ UNCHANGED <<events, feeds, error>>
           ELSE IF raising # {}
           THEN /\ error' = Some(CreateEventError(
                                     ts[CHOOSE i \in raising : \A j \in raising : i <= j]))
                /\ pc' = "raised"
                /\ UNCHANGED <<batch, events>>
           ELSE /\ events' = [i \in 1..Len(ts) |-> CreateEvent(ts[i])]
                /\ \E written \in BOOLEAN :
                     IF written
                     THEN /\ feeds' = [feeds EXCEPT ![idx] = Some(events')]
                          /\ Return(TRUE)
                          /\ error' = error
                     ELSE /\ error' = Some("OSError")
                          /\ pc' = "raised"
                          /\ UNCHANGED batch
    /\ UNCHANGED <<inputs, config, videogame_ids, owner_ids, location_params,
                   after_date, before_date, all_tournaments, ownerPos, sent, returned,
                   unique_tournaments, tournaments>>

\* generate_calendar_for_config: the except clause.
HandleError ==
    /\ pc = "raised"
    /\ IF Caught(error[1])
       THEN Return(FALSE) /\ error' = None /\ feeds' = feeds
       ELSE /\ pc' = "exit"
            /\ exitCode' = Some(1)
            /\ UNCHANGED <<idx, success_count, attempted, outcomes, feeds, summary, error>>
    /\ UNCHANGED <<inputs, frame>>

\* main, after the loop: the summary.
Summary ==
    /\ pc = "loop"
    /\ idx > Len(files)
    /\ summary' = Some([processed |-> Len(files), succeeded |-> success_count,
                         failed |-> Len(files) - success_count])
    /\ exitCode' = Some(0)
    /\ pc' = "exit"
    /\ UNCHANGED <<inputs, frame, error, idx, success_count, attempted, outcomes, feeds>>

Next ==
    \/ MainStart
    \/ StartConfig
    \/ BuildCriteria
    \/ PrimaryQuery
    \/ OwnerQuery
    \/ FinishFetch
    \/ Generate
    \/ HandleError
    \/ Summary

InitRun ==
    /\ pc = "main"
    /\ idx = 1
    /\ success_count = 0
    /\ attempted = <<>>
    /\ outcomes = <<>>
    /\ feeds = [i \in 1..Len(files) |-> None]
    /\ summary = None
    /\ exitCode = None
    /\ config = EmptyConfig
    /\ videogame_ids = <<>>
    /\ owner_ids = <<>>
    /\ location_params = NoLocationParams
    /\ after_date = None
    /\ before_date = None
    /\ all_tournaments = <<>>
    /\ ownerPos = 1
    /\ sent = <<>>
    /\ returned = <<>>
    /\ unique_tournaments = <<>>
    /\ tournaments = None
    /\ error = None
    /\ events = <<>>

Todays == {1762214400}

(***************************************************************************)
(* The batch: several config files, some of them failing.                  *)
(***************************************************************************)
GoodTournament == PlainTournament(Some(1), Some(20), Some(TRUE))
NullGameTournament ==
    Tournament(Some(2), None, None, None, None, None, None, None, None,
               <<[name |-> "Singles", videogame |-> [kind |-> "null", name |-> None]]>>)

BatchFiles ==
    {File("missing", EmptyConfig),
     File("invalid", EmptyConfig),
     File("ok", EmptyConfig),
     File("ok", Config(<<>>, <<Entry("str", Some("owner41"), None)>>, NoLocation,
                       None, NoFilters)),
     File("ok", Config(<<>>, <<>>, CenterOnly, None, NoFilters))}

Init ==
    /\ files \in SeqUpTo(BatchFiles, MaxFiles)
    /\ remote = {GoodTournament, NullGameTournament}
    /\ apiKey \in BOOLEAN
    /\ today \in Todays
    /\ InitRun

Spec == Init /\ [][Next]_vars

\* main runs to its end: every step of the run is taken eventually.
FairSpec == Spec /\ WF_vars(Next)
(***************************************************************************)
(* One config file, every result list of the service: the union fetch.     *)
(***************************************************************************)
OneOwner == <<Entry("str", Some("owner41"), None)>>
TwoOwners == <<Entry("str", Some("owner41"), None), Entry("dict_id", Some("owner42"), None)>>

UnionConfigs ==
    {Config(<<>>, owners, NoLocation, None, NoFilters) :
        owners \in {<<>>, OneOwner, TwoOwners}}

UnionInit ==
    /\ files \in {<<File("ok", cfg)>> : cfg \in UnionConfigs}
    /\ remote = UnionRemote
    /\ apiKey = TRUE
    /\ today \in Todays
    /\ InitRun

UnionSpec == UnionInit /\ [][Next]_vars

(***************************************************************************)
(* One config file, with and without a threshold: the result filter.       *)
(***************************************************************************)
MinTwenty == [date_range_days |-> None, include_past_days |-> None,
              min_attendees |-> Some(20)]

FilterConfigs ==
    {Config(<<>>, owners, NoLocation, None, filters) :
        owners \in {<<>>, OneOwner}, filters \in {NoFilters, MinTwenty}}

FilterInit ==
    /\ files \in {<<File("ok", cfg)>> : cfg \in FilterConfigs}
    /\ remote = FilterRemote
    /\ apiKey = TRUE
    /\ today \in Todays
    /\ InitRun

FilterSpec == FilterInit /\ [][Next]_vars

(***************************************************************************)
(* One config file, every shape of configuration: the criteria.            *)
(***************************************************************************)
EntryLists(S) == {<<>>} \cup {<<a>> : a \in S} \cup {<<a, b>> : a \in S, b \in S}

DaysWindow == [date_range_days |-> Some(90), include_past_days |-> Some(7),
               min_attendees |-> None]

CriteriaConfigs ==
    {Config(games, owners, location, window[1], window[2]) :
        games \in EntryLists(GameEntries),
        owners \in EntryLists(OwnerEntries),
        location \in {NoLocation, CenterRadius, CenterOnly},
        window \in {<<None, NoFilters>>, <<Some(1), NoFilters>>, <<None, DaysWindow>>}}

CriteriaInit ==
    /\ files \in {<<File("ok", cfg)>> : cfg \in CriteriaConfigs}
    /\ remote = {GoodTournament}
    /\ apiKey = TRUE
    /\ today \in Todays
    /\ InitRun

CriteriaSpec == CriteriaInit /\ [][Next]_vars

(***************************************************************************)
(* One config file, one tournament with every combination of optional      *)
(* fields: the event mapper.                                               *)
(***************************************************************************)
MapInputs ==
    {<<File("ok", EmptyConfig), {t}>> : t \in RichTournaments}
    \cup {<<File("ok", Config(<<>>, OneOwner, NoLocation, None, NoFilters)),
            {GoodTournament}>>}

MapInit ==
    /\ \E input \in MapInputs : files = <<input[1]>> /\ remote = input[2]
    /\ apiKey = TRUE
    /\ today \in Todays
    /\ InitRun

MapSpec == MapInit /\ [][Next]_vars

(***************************************************************************)
(* One config file, tournaments with every kind of start and end           *)
(* timestamp, beside another record of tournament 1: times and UIDs.       *)
(***************************************************************************)
Timestamps == {None, Some(0), Some(1000000), Unparseable("TypeError"),
               Unparseable("OverflowError")}

TimedTournaments ==
    {Tournament(id, None, None, s, e, None, None, None, None, <<>>) :
        id \in {Some(1), Some(2)},
        s \in Timestamps,
        e \in {None, Some(0), Some(1090000)}}

EventInit ==
    /\ files \in {<<File("ok", EmptyConfig)>>,
                  <<File("ok", Config(<<>>, OneOwner, NoLocation, None, NoFilters))>>}
    /\ remote \in {{t, GoodTournament} : t \in TimedTournaments}
    /\ apiKey = TRUE
    /\ today \in Todays
    /\ InitRun

EventSpec == EventInit /\ [][Next]_vars

(***************************************************************************)
(* Properties                                                              *)
(***************************************************************************)
RECURSIVE Flatten(_)
\* The result lists in order, one after the other (no list counts as empty).
Flatten(lists) ==
    IF lists = <<>> THEN <<>>
    ELSE (IF Head(lists) = None THEN <<>> ELSE Head(lists)[1]) \o Flatten(Tail(lists))

RECURSIVE PickFrom(_, _, _)
PickFrom(s, K, i) ==
    IF i > Len(s) THEN <<>>
    ELSE (IF i \in K THEN <<s[i]>> ELSE <<>>) \o PickFrom(s, K, i + 1)

\* The subsequence of s at the positions K.
Pick(s, K) == PickFrom(s, K, 1)

\* Positions whose tournament id did not occur at an earlier position.
FirstOccurrences(s) ==
    {i \in 1..Len(s) : \A j \in 1..(i - 1) : s[j].id # s[i].id}

\* Positions that carry a tournament id.
WithId(s) == {i \in 1..Len(s) : s[i].id # None /\ s[i].id[1] # 0}

C2_FailureIsolation ==
    /\ ~(pc = "raised" /\ sent # <<>> /\ tournaments = None)
    /\ pc = "fetched" =>
          /\ Len(sent) = 1 + Len(owner_ids)
          /\ tournaments = Some(ApplyFilters(Dedup(Flatten(returned)), config.filters))

\* C3: the filter returns, in order, exactly the tournaments whose attendee count is
\* unknown or at least min_attendees (0 when not configured); registration status
\* plays no part.
C3_ResultFilter ==
    pc = "fetched" =>
        LET min == IF config.filters.min_attendees = None THEN 0
                   ELSE config.filters.min_attendees[1]
            kept == {i \in 1..Len(unique_tournaments) :
                        \/ unique_tournaments[i].numAttendees = None
                        \/ unique_tournaments[i].numAttendees[1] >= min}
        IN  tournaments = Some(Pick(unique_tournaments, kept))

\* A threshold of 20: a closed tournament of unknown size and a closed one of
\* exactly 20 are kept, one of 5 is dropped.
C3_Witness ==
    /\ pc = "fetched"
    /\ config.filters.min_attendees = Some(20)
    /\ \E i \in 1..Len(unique_tournaments) :
          /\ unique_tournaments[i].numAttendees = Some(5)
          /\ \A j \in 1..Len(tournaments[1]) : tournaments[1][j] # unique_tournaments[i]
    /\ \E j \in 1..Len(tournaments[1]) :
          /\ tournaments[1][j].numAttendees = None
          /\ tournaments[1][j].isRegistrationOpen = Some(FALSE)
    /\ \E j \in 1..Len(tournaments[1]) :
          /\ tournaments[1][j].numAttendees = Some(20)
          /\ tournaments[1][j].isRegistrationOpen = Some(FALSE)

\* C4: the event mapper never raises, whatever optional fields of the tournament
\* are absent or null: generating the calendar never fails with an error of the
\* mapper.
C4_MapperTotal == ~(pc = "raised" /\ error = Some("AttributeError"))

\* Number of config files generate_calendar_for_config returned ok for.
Count(ok) == Cardinality({i \in 1..Len(outcomes) : outcomes[i] = ok})

\* The run has ended normally, every config file attempted once and in order, the
\* summary counting the successes and the failures.
Finished ==
    /\ pc = "exit"
    /\ exitCode = Some(0)
    /\ attempted = [i \in 1..Len(files) |-> i]
    /\ Len(outcomes) = Len(files)
    /\ files # <<>> =>
          /\ summary # None
          /\ summary[1].succeeded = Count(TRUE)
          /\ summary[1].failed = Count(FALSE)
          /\ summary[1].succeeded + summary[1].failed = Len(files)

\* C5: whatever fails for whichever config file, no error leaves
\* generate_calendar_for_config, and the run eventually ends normally with every
\* config file attempted exactly once and succeeded + failed = number of files.
C5_BatchIsolation ==
    /\ [](exitCode # Some(1))
    /\ [](Len(attempted) <= Len(files))
    /\ <>[]Finished

\* Two config files: the first fails, the second is still attempted and succeeds.
C5_Witness ==
    /\ Finished
    /\ outcomes = <<FALSE, TRUE>>
    /\ files[1].kind = "missing"

\* C6: after the primary query there is one query per owner id, in order, and the
\* filter it sends carries that owner id and the primary query's date window, and no
\* game or location filter.
C6_OwnerQueries ==
    /\ \A k \in 2..Len(sent) :
          /\ sent[k].filter.ownerId = Some(owner_ids[k - 1])
          /\ sent[k].filter.afterDate = sent[1].filter.afterDate
          /\ sent[k].filter.beforeDate = sent[1].filter.beforeDate
          /\ sent[k].filter.videogameIds = None
          /\ sent[k].filter.location = None
    /\ pc = "fetched" => Len(sent) = 1 + Len(owner_ids)

\* The date window the configuration asks for: years either way, or days ahead and
\* days behind; none when neither is configured.
ConfiguredWindow(cfg, now) ==
    IF cfg.date_range_years # None
    THEN <<Some(now - cfg.date_range_years[1] * 365 * 86400),
           Some(now + cfg.date_range_years[1] * 365 * 86400)>>
    ELSE IF cfg.filters.date_range_days # None /\ cfg.filters.include_past_days # None
    THEN <<Some(now - cfg.filters.include_past_days[1] * 86400),
           Some(now + cfg.filters.date_range_days[1] * 86400)>>
    ELSE <<None, None>>

\* C7: every query of the fetch carries the configured date window, in either of
\* its shapes, and no date bound only when none is configured.
C7_DateWindow ==
    \A k \in 1..Len(sent) :
        /\ sent[k].filter.afterDate = ConfiguredWindow(config, today)[1]
        /\ sent[k].filter.beforeDate = ConfiguredWindow(config, today)[2]

\* C8: a location with a center and no radius disables location filtering: the fetch
\* does not fail and its primary query carries no location filter.
C8_RadiusAbsence ==
    (config.location.center # None /\ config.location.radius = None) =>
        /\ ~(pc = "raised" /\ tournaments = None)
        /\ pc \in {"owners", "finish", "fetched"} =>
              Len(sent) >= 1 /\ sent[1].filter.location = None

\* C9: once the criteria are built, every entry of games and of owners that gives
\* its identifier (bare, or in an object) has contributed it, whatever the other
\* entries are.
C9_ListEntries ==
    pc \in {"primary", "owners", "finish", "fetched"} =>
        /\ \A i \in 1..Len(config.games) :
              config.games[i].id # None =>
                  \E j \in 1..Len(videogame_ids) : videogame_ids[j] = config.games[i].id[1]
        /\ \A i \in 1..Len(config.owners) :
              config.owners[i].id # None =>
                  \E j \in 1..Len(owner_ids) : owner_ids[j] = config.owners[i].id[1]

\* The description as documented: attendees when the count is present, events
\* when there is one, "Registration Closed" when the flag is false, the URL.
DescriptionAsStated(t) ==
    (IF t.numAttendees # None THEN <<<<"Attendees: ", t.numAttendees[1]>>>> ELSE <<>>)
    \o (IF Len(t.events) >= 1
        THEN <<<<"Events: ", [i \in 1..Len(t.events) |-> t.events[i].name]>>>>
        ELSE <<>>)
    \o (IF t.isRegistrationOpen # None /\ t.isRegistrationOpen[1] = FALSE
        THEN <<<<"Registration Closed">>>> ELSE <<>>)
    \o <<<<"View on start.gg: https://start.gg/", t.slug>>>>

\* C10: the description of every mapped event is composed, in order, of the
\* attendees line iff the count is present (0 included), the events line iff there
\* is a sub-event, "Registration Closed" iff the flag is false, and the URL line.
C10_Description ==
    \A i \in 1..Len(events) :
        events[i].description = DescriptionAsStated(tournaments[1][i])

\* The start timestamp is absent or is no timestamp.
StartAbsent(t) == t.startAt = None \/ Len(t.startAt) = 2

\* C11: a tournament whose start timestamp is absent or unparseable is mapped all
\* the same, to an event with neither start nor end, whatever its endAt.
C11_AbsentStart ==
    /\ \A i \in 1..Len(events) :
          StartAbsent(tournaments[1][i]) =>
              events[i].dtstart = None /\ events[i].dtend = None
    /\ ~(/\ pc = "raised"
         /\ tournaments # None
         /\ error \notin {Some("OSError"), Some("AttributeError")}
         /\ \E i \in 1..Len(tournaments[1]) : StartAbsent(tournaments[1][i]))

\* C12: a tournament with a start timestamp (any number of seconds) is mapped to
\* an event that starts then; it ends 4 hours (14400 s) later when endAt is
\* absent, and at endAt when endAt is a timestamp too.
C12_DefaultEnd ==
    \A i \in 1..Len(events) :
        LET t == tournaments[1][i]
        IN  (t.startAt # None /\ Len(t.startAt) = 1) =>
                /\ events[i].dtstart = Some(t.startAt[1])
                /\ t.endAt = None => events[i].dtend = Some(t.startAt[1] + 14400)
                /\ (t.endAt # None /\ Len(t.endAt) = 1) =>
                       events[i].dtend = Some(t.endAt[1])

\* C13: the UID of a mapped event is "tournament-<id>@nextbracket", and any record
\* the service holds for the same tournament id, whatever its other fields, maps to
\* the same UID.
C13_StableUid ==
    \A i \in 1..Len(events) :
        /\ events[i].uid = <<"tournament-", tournaments[1][i].id, "@nextbracket">>
        /\ \A t \in remote :
              (t.id = tournaments[1][i].id /\ ~CreateEventRaises(t)) =>
                  CreateEvent(t).uid = events[i].uid

\* An event was mapped from one record of tournament 1 while the service holds
\* another record of it with a different start and attendee count.
C13_Witness ==
    /\ Len(events) = 1
    /\ tournaments[1][1].id = Some(1)
    /\ tournaments[1][1].startAt = None
    /\ \E t \in remote :
          /\ t.id = Some(1)
          /\ t.startAt = Some(1000000)
          /\ t.numAttendees # tournaments[1][1].numAttendees
          /\ ~CreateEventRaises(t)

\* generate_calendar_for_config is back from a fetch that found nothing.
EmptyFetch == pc = "fetched" /\ tournaments = Some(<<>>)

\* C14: when the fetch ends without error and with no tournament, the step that
\* follows writes no feed, returns False to main, which goes on to the next config
\* file, and the summary counts that config file as failed.
C14_EmptyWritesNothing ==
    /\ [][EmptyFetch =>
            /\ feeds' = feeds
            /\ outcomes' = Append(outcomes, FALSE)
            /\ success_count' = success_count
            /\ idx' = idx + 1
            /\ pc' = "loop"]_vars
    /\ [](summary # None =>
            /\ summary[1].failed = Count(FALSE)
            /\ summary[1].succeeded = Cardinality({i \in 1..Len(feeds) : feeds[i] # None}))

\* Two config files; the first fetched nothing: no feed, False, and the second
\* config file is next.
C14_Witness ==
    /\ pc = "loop"
    /\ Len(files) = 2
    /\ idx = 2
    /\ tournaments = Some(<<>>)
    /\ error = None
    /\ outcomes = <<FALSE>>
    /\ feeds = <<None, None>>
====
